---- MODULE Spec2Model ----
(***************************************************************************)
(* Model of check-trades.js: one scheduled run fetches the provider's      *)
(* trades, filters the ones already in the seen_trades table, e-mails one  *)
(* digest and records the new trades.  The seen_trades table is the only   *)
(* state that outlives a run.                                              *)
(***************************************************************************)
EXTENDS FiniteSets, Integers, Sequences, TLC

\* ------------------------------------------------------------------ bounds
MaxLen == 2      \* longest array the provider publishes
MaxRuns == 2     \* scheduled runs in one behaviour
FetchCap == 15   \* parsed.slice(0, 15)
MaxBatch == 12   \* longest batch a digest is composed for
MaxFeed == 17    \* longest array the provider publishes to a run that counts its calls
DigestCap == 10  \* trades.slice(0, 10), trades.length > 10

\* ------------------------------------------------------- JavaScript values
Undefined == "<undefined>"                 \* a property that is absent

Falsy(v) == v = Undefined \/ v = ""        \* !v for a string-or-undefined v
Or(a, b) == IF Falsy(a) THEN b ELSE a      \* a || b
Str(v) == IF v = Undefined THEN "undefined" ELSE v   \* v + '' in a concatenation

Take(s, n) == SubSeq(s, 1, IF Len(s) < n THEN Len(s) ELSE n)   \* s.slice(0, n)

\* ------------------------------------------------------------ environment
ValidUrl == "https://db.example.co"
Urls == {Undefined, "your_supabase_url_here", ValidUrl}

Configs ==
  [YOUR_EMAIL : {Undefined, "me@example.com"},
   RESEND_API_KEY : {Undefined, "re_key"},
   SUPABASE_URL : Urls,
   SUPABASE_KEY : {Undefined, "sb_key"}]

\* a record of the provider's array
Trade(sen, rep, tick, tdate, ddate) ==
  [senator |-> sen, representative |-> rep, ticker |-> tick,
   transaction_date |-> tdate, disclosure_date |-> ddate]

\* the records the provider can publish: every way a record can be shaped
\* that the filtering loop or markAsSeen tells apart
TradeRecords ==
  {Trade("Ann Lee", Undefined, "AAPL", "2024-01-02", Undefined),
   Trade("Ann Lee", Undefined, "MSFT", "2024-01-02", "2024-01-09"),
   Trade(Undefined, "Bob Ray", "AAPL", "2024-01-02", Undefined),
   Trade("Ann Lee", "Bob Ray", "AAPL", Undefined, "2024-01-09"),
   Trade("Ann Lee", Undefined, "AAPL", Undefined, Undefined),
   Trade(Undefined, Undefined, "AAPL", "2024-01-02", "2024-01-09"),
   Trade("", "", "AAPL", "2024-01-02", Undefined),
   Trade("Ann Lee", Undefined, Undefined, "2024-01-02", Undefined),
   Trade(Undefined, "Bob Ray", "", Undefined, "2024-01-09")}

SeqsUpTo(S, n) == UNION {[1..k -> S] : k \in 0..n}
Feeds == SeqsUpTo(TradeRecords, MaxLen)

VARIABLES
  CONFIG,        \* process.env, read once per process
  feed,          \* the array the provider serves
  store,         \* rows of the seen_trades table
  run,           \* number of runs started
  pc,            \* position of checkForNewTrades
  trades,        \* const trades = await fetchRecentTrades()
  i,             \* index of the filtering loop
  newTrades,     \* const newTrades = []
  j,             \* index of the persisting loop
  isNewLog,      \* the isNewTrade calls of this run
  emails,        \* the sendEmailAlert calls of this run
  markLog,       \* the markAsSeen calls of this run
  resp,          \* what the last outbound call came back with
  outcome,       \* how checkForNewTrades settled
  exitCode,      \* exit status of the process
  storeAtStart,  \* the table when the run started
  prev,          \* summary of the previous run
  inflight,      \* requests sent and not yet answered
  awaiting,      \* checkForNewTrades is suspended in an `await` on a request
  events,        \* the requests of the run, as they were sent and answered
  batch,         \* the `trades` argument of sendEmailAlert
  digest,        \* the message sendEmailAlert composes for it
  pair,          \* two records given to the identity computation
  ids            \* their tradeIds

runVars == <<CONFIG, feed, store, run, pc, trades, i, newTrades, j, isNewLog,
             emails, markLog, resp, outcome, exitCode, storeAtStart, prev>>
callVars == <<inflight, awaiting, events>>
digestVars == <<batch, digest>>
idVars == <<pair, ids>>
vars == <<runVars, callVars, digestVars, idVars>>

\* ---------------------------------------------------------- pure functions
\* mutant: a table counted as configured once its URL is set
StoreConfiguredByUrlOnly(c) == ~Falsy(c.SUPABASE_URL)

StoreConfigured(c) == ~(Falsy(c.SUPABASE_URL) \/ Falsy(c.SUPABASE_KEY))

\* mutant: the channel counted as configured once its key is set
EmailConfiguredByKeyOnly(c) == ~Falsy(c.RESEND_API_KEY)

EmailConfigured(c) == ~(Falsy(c.RESEND_API_KEY) \/ Falsy(c.YOUR_EMAIL))
UrlParses(c) == c.SUPABASE_URL = ValidUrl      \* new URL(...) does not throw

\* mutant: the ticker guard left out
EligibleWithoutTickerGuard(trade) ==
  ~(Falsy(trade.senator) /\ Falsy(trade.representative))

\* the two `continue` guards of the filtering loop
Eligible(trade) ==
  /\ ~(Falsy(trade.senator) /\ Falsy(trade.representative))
  /\ ~Falsy(trade.ticker)

\* mutant: the identity built the way markAsSeen builds it
TradeIdOfSenator(trade) ==
  Str(trade.transaction_date) \o "-" \o Str(trade.senator) \o "-" \o
  Str(trade.ticker)

\* the identity the filtering loop builds
TradeId(trade) ==
  Str(Or(trade.transaction_date, trade.disclosure_date)) \o "-" \o
  Str(Or(trade.senator, trade.representative)) \o "-" \o Str(trade.ticker)

\* the row markAsSeen posts
SeenRow(trade) ==
  [id |-> Str(trade.transaction_date) \o "-" \o Str(trade.senator) \o "-" \o
          Str(trade.ticker),
   politician |-> trade.senator,
   ticker |-> trade.ticker,
   filed_date |-> trade.transaction_date]

\* GET /rest/v1/seen_trades?id=eq.<tradeId>
Rows(table, tradeId) == {row \in table : row.id = tradeId}

ReadResponses(c) ==
  IF ~StoreConfigured(c) THEN {"notCalled"}
  ELSE IF ~UrlParses(c) THEN {"invalidUrl"}
  ELSE {"rows", "errorObject", "null", "badJson", "netError"}

\* results.length of the parsed body; -1 stands for undefined
ResultsLength(r, table, tradeId) ==
  IF r = "rows" THEN Cardinality(Rows(table, tradeId)) ELSE -1

\* what isNewTrade resolves to
IsNewTrade(r, table, tradeId) ==
  CASE r = "notCalled" -> TRUE
    [] r = "invalidUrl" -> TRUE
    [] r = "netError" -> TRUE
    [] r = "badJson" -> TRUE
    [] r = "null" -> TRUE
    [] OTHER -> ResultsLength(r, table, tradeId) = 0

\* what the table told about the identity
Answer(r, table, tradeId) ==
  IF r = "rows"
  THEN IF Rows(table, tradeId) = {} THEN "absent" ELSE "present"
  ELSE IF r \in {"notCalled", "invalidUrl"} THEN "none" ELSE "failed"

WriteResponses(c) ==
  IF ~StoreConfigured(c) THEN {"notCalled"}
  ELSE IF ~UrlParses(c) THEN {"invalidUrl"}
  ELSE {"accepted", "rejected", "netError"}

EmailResponses(c) ==
  IF ~EmailConfigured(c) THEN {"notCalled"} ELSE {"200", "non200", "netError"}

\* mutant: the status code of the channel's response is not looked at
EmailResolvesWhateverStatus(r) == r \in {"notCalled", "200", "non200"}

\* sendEmailAlert resolves (TRUE) or rejects (FALSE)
EmailResolves(r) == r \in {"notCalled", "200"}

\* mutant: a rejection of checkForNewTrades ends the process with status 1
ExitStatusOfRejection(o) == IF o = "rethrown" THEN 1 ELSE 0

\* checkForNewTrades().catch(console.error): the rejection is handled
ExitStatus(o) == 0

NoPrev == [ran |-> FALSE, trades |-> <<>>, clean |-> FALSE]

\* -------------------------------------------------------------------- Init
NoDigest == [sent |-> FALSE]

\* one line item of the digest: the values the template interpolates
Line(t) ==
  [person |-> Or(t.senator, t.representative), type |-> t.type,
   ticker |-> t.ticker, amount |-> Or(t.amount, "Unknown"),
   date |-> t.transaction_date]

\* mutant: the summary line also written for a batch of exactly ten
DigestMoreFromTen(ts) ==
  [sent |-> TRUE,
   count |-> Len(ts),
   lines |-> [k \in 1..Len(Take(ts, DigestCap)) |-> Line(ts[k])],
   more |-> IF Len(ts) >= DigestCap THEN <<Len(ts) - DigestCap>> ELSE <<>>]

\* the subject and body sendEmailAlert composes: the count in the subject,
\* the line items, and the number in the "and N more" line if there is one
Digest(ts) ==
  [sent |-> TRUE,
   count |-> Len(ts),
   lines |-> [k \in 1..Len(Take(ts, DigestCap)) |-> Line(ts[k])],
   more |-> IF Len(ts) > DigestCap THEN <<Len(ts) - DigestCap>> ELSE <<>>]

\* nothing has run yet
Idle ==
  /\ store = {}
  /\ run = 0
  /\ pc = "idle"
  /\ trades = <<>>
  /\ i = 1
  /\ newTrades = <<>>
  /\ j = 1
  /\ isNewLog = <<>>
  /\ emails = <<>>
  /\ markLog = <<>>
  /\ resp = "none"
  /\ outcome = "none"
  /\ exitCode = 0
  /\ storeAtStart = {}
  /\ prev = NoPrev
  /\ inflight = 0
  /\ awaiting = FALSE
  /\ events = <<>>
  /\ digest = NoDigest
  /\ ids = <<>>

Init ==
  /\ CONFIG \in Configs
  /\ feed \in Feeds
  /\ Idle
  /\ batch = <<>>
  /\ pair = <<>>

\* ----------------------------------------------------------------- actions
ReadsHealthy == \A k \in 1..Len(isNewLog) : isNewLog[k].answer \in {"absent", "present"}
AllAccepted ==
  /\ Len(markLog) = Len(newTrades)
  /\ \A k \in 1..Len(markLog) : markLog[k].resp = "accepted"
Notified == Len(emails) = 1 /\ emails[1].resp = "200"

\* the scheduler starts the process
StartRun ==
  /\ pc \in {"idle", "exited"}
  /\ run < MaxRuns
  /\ run' = run + 1
  /\ pc' = "fetch"
  /\ prev' = IF pc = "idle" THEN NoPrev
             ELSE [ran |-> TRUE, trades |-> trades,
                   clean |-> outcome = "completed" /\ ReadsHealthy /\ Notified
                             /\ AllAccepted]
  /\ trades' = <<>>
  /\ i' = 1
  /\ newTrades' = <<>>
  /\ j' = 1
  /\ isNewLog' = <<>>
  /\ emails' = <<>>
  /\ markLog' = <<>>
  /\ resp' = "none"
  /\ outcome' = "none"
  /\ storeAtStart' = store
  /\ UNCHANGED <<CONFIG, feed, store, exitCode>>

Settle(o) ==
  /\ pc' = "exited"
  /\ outcome' = o
  /\ exitCode' = ExitStatus(o)

\* mutant: a payload that does not parse is resolved as an empty array
FetchRecentTradesAbsorbing ==
  /\ pc = "fetch"
  /\ \E r \in {"array", "notArray", "non200", "badJson", "netError"} :
       /\ resp' = r
       /\ IF r \in {"non200", "netError"}
          THEN /\ trades' = trades
               /\ Settle("rethrown")
          ELSE /\ trades' = IF r = "array" THEN Take(feed, FetchCap) ELSE <<>>
               /\ IF trades' = <<>>
                  THEN Settle("completed")
                  ELSE /\ pc' = "filter"
                       /\ UNCHANGED <<outcome, exitCode>>
  /\ UNCHANGED <<CONFIG, feed, store, run, i, newTrades, j, isNewLog, emails,
                 markLog, storeAtStart, prev>>

\* mutant: the parsed array is taken whole, without slice(0, 15)
FetchRecentTradesWhole ==
  /\ pc = "fetch"
  /\ \E r \in {"array", "notArray", "non200", "badJson", "netError"} :
       /\ resp' = r
       /\ IF r \in {"non200", "badJson", "netError"}
          THEN /\ trades' = trades
               /\ Settle("rethrown")
          ELSE /\ trades' = IF r = "array" THEN feed ELSE <<>>
               /\ IF trades' = <<>>
                  THEN Settle("completed")
                  ELSE /\ pc' = "filter"
                       /\ UNCHANGED <<outcome, exitCode>>
  /\ UNCHANGED <<CONFIG, feed, store, run, i, newTrades, j, isNewLog, emails,
                 markLog, storeAtStart, prev>>

\* fetchRecentTrades and the empty check
FetchRecentTrades ==
  /\ pc = "fetch"
  /\ \E r \in {"array", "notArray", "non200", "badJson", "netError"} :
       /\ resp' = r
       /\ IF r \in {"non200", "badJson", "netError"}
          THEN /\ trades' = trades
               /\ Settle("rethrown")
          ELSE /\ trades' = IF r = "array" THEN Take(feed, FetchCap) ELSE <<>>
               /\ IF trades' = <<>>
                  THEN Settle("completed")
                  ELSE /\ pc' = "filter"
                       /\ UNCHANGED <<outcome, exitCode>>
  /\ UNCHANGED <<CONFIG, feed, store, run, i, newTrades, j, isNewLog, emails,
                 markLog, storeAtStart, prev>>

\* one iteration of `for (const trade of trades)`
FilterTrade ==
  /\ pc = "filter"
  /\ i <= Len(trades)
  /\ i' = i + 1
  /\ LET trade == trades[i] IN
     IF ~Eligible(trade)
     THEN UNCHANGED <<newTrades, isNewLog, resp>>
     ELSE \E r \in ReadResponses(CONFIG) :
            LET tradeId == TradeId(trade)
                isNew == IsNewTrade(r, store, tradeId) IN
            /\ resp' = r
            /\ isNewLog' = Append(isNewLog,
                 [index |-> i, tradeId |-> tradeId,
                  answer |-> Answer(r, store, tradeId), result |-> isNew])
            /\ newTrades' = IF isNew THEN Append(newTrades, trade) ELSE newTrades
  /\ UNCHANGED <<CONFIG, feed, store, run, pc, trades, j, emails, markLog,
                 outcome, exitCode, storeAtStart, prev>>

\* mutant: the empty check left out, the digest is sent for an empty new set
NoNewTradesFallsThrough ==
  /\ pc = "filter"
  /\ i > Len(trades)
  /\ newTrades = <<>>
  /\ \E r \in EmailResponses(CONFIG) :
       /\ resp' = r
       /\ emails' = Append(emails, [batch |-> newTrades, resp |-> r])
       /\ IF EmailResolves(r)
          THEN /\ pc' = "persist"
               /\ UNCHANGED <<outcome, exitCode>>
          ELSE Settle("rethrown")
  /\ UNCHANGED <<CONFIG, feed, store, run, trades, i, newTrades, j, isNewLog,
                 markLog, storeAtStart, prev>>

\* `if (newTrades.length === 0) return`
NoNewTrades ==
  /\ pc = "filter"
  /\ i > Len(trades)
  /\ newTrades = <<>>
  /\ Settle("completed")
  /\ UNCHANGED <<CONFIG, feed, store, run, trades, i, newTrades, j, isNewLog,
                 emails, markLog, resp, storeAtStart, prev>>

\* mutant: one message per trade instead of one digest
SendEmailAlertPerTrade ==
  /\ pc = "filter"
  /\ i > Len(trades)
  /\ newTrades # <<>>
  /\ \E r \in EmailResponses(CONFIG) :
       /\ resp' = r
       /\ emails' = emails \o [k \in 1..Len(newTrades) |->
                                 [batch |-> <<newTrades[k]>>, resp |-> r]]
       /\ IF EmailResolves(r)
          THEN /\ pc' = "persist"
               /\ UNCHANGED <<outcome, exitCode>>
          ELSE Settle("rethrown")
  /\ UNCHANGED <<CONFIG, feed, store, run, trades, i, newTrades, j, isNewLog,
                 markLog, storeAtStart, prev>>

\* `await sendEmailAlert(newTrades)`
SendEmailAlert ==
  /\ pc = "filter"
  /\ i > Len(trades)
  /\ newTrades # <<>>
  /\ \E r \in EmailResponses(CONFIG) :
       /\ resp' = r
       /\ emails' = Append(emails, [batch |-> newTrades, resp |-> r])
       /\ IF EmailResolves(r)
          THEN /\ pc' = "persist"
               /\ UNCHANGED <<outcome, exitCode>>
          ELSE Settle("rethrown")
  /\ UNCHANGED <<CONFIG, feed, store, run, trades, i, newTrades, j, isNewLog,
                 markLog, storeAtStart, prev>>

\* mutant: markAsSeen rejects on a network error
MarkAsSeenRejecting ==
  /\ pc = "persist"
  /\ j <= Len(newTrades)
  /\ j' = j + 1
  /\ \E r \in WriteResponses(CONFIG) :
       /\ resp' = r
       /\ markLog' = Append(markLog, [trade |-> newTrades[j],
                                     id |-> SeenRow(newTrades[j]).id, resp |-> r])
       /\ store' = IF r = "accepted" THEN store \cup {SeenRow(newTrades[j])}
                   ELSE store
       /\ IF r = "netError"
          THEN Settle("rethrown")
          ELSE UNCHANGED <<pc, outcome, exitCode>>
  /\ UNCHANGED <<CONFIG, feed, run, trades, i, newTrades, isNewLog, emails,
                 storeAtStart, prev>>

\* mutant: the write replaces what the table held
MarkAsSeenOverwriting ==
  /\ pc = "persist"
  /\ j <= Len(newTrades)
  /\ j' = j + 1
  /\ \E r \in WriteResponses(CONFIG) :
       /\ resp' = r
       /\ markLog' = Append(markLog, [trade |-> newTrades[j],
                                     id |-> SeenRow(newTrades[j]).id, resp |-> r])
       /\ store' = IF r = "accepted" THEN {SeenRow(newTrades[j])} ELSE store
  /\ UNCHANGED <<CONFIG, feed, run, pc, trades, i, newTrades, isNewLog, emails,
                 outcome, exitCode, storeAtStart, prev>>

\* one iteration of `for (const trade of newTrades) await markAsSeen(trade)`
MarkAsSeen ==
  /\ pc = "persist"
  /\ j <= Len(newTrades)
  /\ j' = j + 1
  /\ \E r \in WriteResponses(CONFIG) :
       /\ resp' = r
       /\ markLog' = Append(markLog, [trade |-> newTrades[j],
                                     id |-> SeenRow(newTrades[j]).id, resp |-> r])
       /\ store' = IF r = "accepted" THEN store \cup {SeenRow(newTrades[j])}
                   ELSE store
  /\ UNCHANGED <<CONFIG, feed, run, pc, trades, i, newTrades, isNewLog, emails,
                 outcome, exitCode, storeAtStart, prev>>

\* `console.log('All done!')`
AllDone ==
  /\ pc = "persist"
  /\ j > Len(newTrades)
  /\ Settle("completed")
  /\ UNCHANGED <<CONFIG, feed, store, run, trades, i, newTrades, j, isNewLog,
                 emails, markLog, resp, storeAtStart, prev>>

\* the variables of the other specifications stay as they are
Quiet == UNCHANGED <<callVars, digestVars, idVars>>

\* a run, each call and its answer taken as one step
Next ==
  \/ StartRun /\ Quiet
  \/ FetchRecentTrades /\ Quiet
  \/ FilterTrade /\ Quiet
  \/ NoNewTrades /\ Quiet
  \/ SendEmailAlert /\ Quiet
  \/ MarkAsSeen /\ Quiet
  \/ AllDone /\ Quiet

Spec == Init /\ [][Next]_vars

\* ------------------------------------- a run, request and answer apart
\* the request checkForNewTrades is about to send, "none" if its next step
\* sends nothing
CallSite ==
  IF pc = "fetch" THEN "fetchRecentTrades"
  ELSE IF pc = "filter" /\ i <= Len(trades)
    THEN IF Eligible(trades[i]) /\ StoreConfigured(CONFIG) /\ UrlParses(CONFIG)
         THEN "isNewTrade" ELSE "none"
  ELSE IF pc = "filter" /\ newTrades # <<>>
    THEN IF EmailConfigured(CONFIG) THEN "sendEmailAlert" ELSE "none"
  ELSE IF pc = "persist" /\ j <= Len(newTrades)
    THEN IF StoreConfigured(CONFIG) /\ UrlParses(CONFIG)
         THEN "markAsSeen" ELSE "none"
  ELSE "none"

\* mutant: the call is made without `await`
SendRequestWithoutAwait ==
  /\ ~awaiting
  /\ CallSite # "none"
  /\ inflight' = inflight + 1
  /\ awaiting' = FALSE
  /\ events' = Append(events, [call |-> CallSite, what |-> "sent"])
  /\ UNCHANGED <<runVars, digestVars, idVars>>

\* `await f(...)`: the request goes out and checkForNewTrades is suspended
SendRequest ==
  /\ ~awaiting
  /\ CallSite # "none"
  /\ inflight' = inflight + 1
  /\ awaiting' = TRUE
  /\ events' = Append(events, [call |-> CallSite, what |-> "sent"])
  /\ UNCHANGED <<runVars, digestVars, idVars>>

\* checkForNewTrades goes on: with the answer to the request it awaits, or,
\* where the step sends nothing, straight away
Resume ==
  /\ IF CallSite = "none"
     THEN /\ ~awaiting
          /\ UNCHANGED callVars
     ELSE /\ awaiting
          /\ inflight' = inflight - 1
          /\ awaiting' = FALSE
          /\ events' = Append(events, [call |-> CallSite, what |-> "answered"])
  /\ UNCHANGED <<digestVars, idVars>>

\* one run
NextCalls ==
  \/ run = 0 /\ StartRun /\ Quiet
  \/ SendRequest
  \/ FetchRecentTrades /\ Resume
  \/ FilterTrade /\ Resume
  \/ NoNewTrades /\ Resume
  \/ SendEmailAlert /\ Resume
  \/ MarkAsSeen /\ Resume
  \/ AllDone /\ Resume

SpecCalls == Init /\ [][NextCalls]_vars

\* ------------------------------------------------------ the digest alone
FullConfig ==
  [YOUR_EMAIL |-> "me@example.com", RESEND_API_KEY |-> "re_key",
   SUPABASE_URL |-> ValidUrl, SUPABASE_KEY |-> "sb_key"]

\* records as the provider publishes them, with type and amount
Disclosure(trade, type, amount) ==
  [senator |-> trade.senator, representative |-> trade.representative,
   ticker |-> trade.ticker, transaction_date |-> trade.transaction_date,
   disclosure_date |-> trade.disclosure_date, type |-> type, amount |-> amount]

DigestTrades ==
  {Disclosure(Trade("Ann Lee", Undefined, "AAPL", "2024-01-02", Undefined),
              "Purchase", "$1,001 - $15,000"),
   Disclosure(Trade(Undefined, "Bob Ray", "MSFT", "2024-01-02", "2024-01-09"),
              "Sale", Undefined)}

InitDigest ==
  /\ CONFIG = FullConfig
  /\ feed = <<>>
  /\ Idle
  /\ batch \in SeqsUpTo(DigestTrades, MaxBatch) \ {<<>>}
  /\ pair = <<>>

\* sendEmailAlert(batch) composes the message
ComposeDigest ==
  /\ EmailConfigured(CONFIG)
  /\ ~digest.sent
  /\ digest' = Digest(batch)
  /\ UNCHANGED <<runVars, callVars, idVars, batch>>

NextDigest == ComposeDigest

SpecDigest == InitDigest /\ [][NextDigest]_vars

\* ---------------------------------------------------- the identity alone
IdRecords ==
  {t \in [senator : {Undefined, "Ann Lee"},
          representative : {Undefined, "Ann Lee", "Bob Ray"},
          ticker : {"AAPL", "MSFT"},
          transaction_date : {Undefined, "2024-01-02"},
          disclosure_date : {Undefined, "2024-01-02", "2024-01-09"},
          type : {"Purchase", "Sale"},
          amount : {Undefined, "$1,001 - $15,000"}] :
     /\ Eligible(t)
     /\ ~(Falsy(t.transaction_date) /\ Falsy(t.disclosure_date))}

InitIdentity ==
  /\ CONFIG = FullConfig
  /\ feed = <<>>
  /\ Idle
  /\ batch = <<>>
  /\ pair \in IdRecords \X IdRecords

\* the filtering loop computes the identity of each record
ComputeIds ==
  /\ ids = <<>>
  /\ ids' = <<TradeId(pair[1]), TradeId(pair[2])>>
  /\ UNCHANGED <<runVars, callVars, digestVars, pair>>

NextIdentity == ComputeIds

SpecIdentity == InitIdentity /\ [][NextIdentity]_vars

\* ------------------------- the identity of records with '-' in a value
DashRecords ==
  {t \in [senator : {Undefined, "Kim", "Kim-Lee"},
          representative : {Undefined, "Kim"},
          ticker : {"B", "Lee-B", "BRK-B"},
          transaction_date : {"2024-01-02"},
          disclosure_date : {Undefined},
          type : {"Purchase"},
          amount : {Undefined}] :
     Eligible(t)}

InitSeparator ==
  /\ CONFIG = FullConfig
  /\ feed = <<>>
  /\ Idle
  /\ batch = <<>>
  /\ pair \in DashRecords \X DashRecords

SpecSeparator == InitSeparator /\ [][NextIdentity]_vars

\* --------------------------------------- runs that may be cut short
\* the process is killed from outside while checkForNewTrades is under way:
\* nothing more of the run happens, and its exit status is not 0
Terminate ==
  /\ pc \in {"fetch", "filter", "persist"}
  /\ pc' = "exited"
  /\ outcome' = "terminated"
  /\ exitCode' = 1
  /\ UNCHANGED <<CONFIG, feed, store, run, trades, i, newTrades, j, isNewLog,
                 emails, markLog, resp, storeAtStart, prev>>

\* the records whose rows reach the table: a person, a ticker and a date
StoredRecords ==
  {t \in TradeRecords :
     /\ Eligible(t)
     /\ ~(Falsy(t.transaction_date) /\ Falsy(t.disclosure_date))}

\* the table is configured, so that reads and writes reach it
InitTerminated ==
  /\ CONFIG \in {c \in Configs : StoreConfigured(c) /\ UrlParses(c)}
  /\ feed \in SeqsUpTo(StoredRecords, MaxLen)
  /\ Idle
  /\ batch = <<>>
  /\ pair = <<>>

NextTerminated ==
  \/ StartRun /\ Quiet
  \/ FetchRecentTrades /\ Quiet
  \/ FilterTrade /\ Quiet
  \/ NoNewTrades /\ Quiet
  \/ SendEmailAlert /\ Quiet
  \/ MarkAsSeen /\ Quiet
  \/ AllDone /\ Quiet
  \/ Terminate /\ Quiet

SpecTerminated == InitTerminated /\ [][NextTerminated]_vars

\* ------------------------------ one run over an array longer than the cap
\* the k-th record of a long array; with gaps, every third has no ticker
LongRecord(k, gaps) ==
  Trade("Ann Lee", Undefined,
        IF gaps /\ k % 3 = 0 THEN Undefined ELSE "T" \o ToString(k),
        "2024-01-02", Undefined)

LongFeeds ==
  {[k \in 1..n |-> LongRecord(k, gaps)] : n \in 0..MaxFeed, gaps \in BOOLEAN}

InitBounded ==
  /\ CONFIG \in Configs
  /\ feed \in LongFeeds
  /\ Idle
  /\ batch = <<>>
  /\ pair = <<>>

\* the table answers every read of the run the way it answered the first
SteadyReads ==
  \A k \in 2..Len(isNewLog') :
    /\ isNewLog'[k].answer = isNewLog'[1].answer
    /\ isNewLog'[k].result = isNewLog'[1].result

\* the table answers every write of the run the way it answered the first
SteadyWrites ==
  \A k \in 2..Len(markLog') : markLog'[k].resp = markLog'[1].resp

NextBounded ==
  \/ run = 0 /\ StartRun /\ Quiet
  \/ SendRequest
  \/ FetchRecentTrades /\ Resume
  \/ FilterTrade /\ Resume /\ SteadyReads
  \/ NoNewTrades /\ Resume
  \/ SendEmailAlert /\ Resume
  \/ MarkAsSeen /\ Resume /\ SteadyWrites
  \/ AllDone /\ Resume

\* every request is answered, with a response or an error, and the event loop
\* runs the continuation of every settled `await`
SpecBounded == InitBounded /\ [][NextBounded]_vars /\ WF_vars(NextBounded)

TypeOK ==
  /\ pc \in {"idle", "fetch", "filter", "persist", "exited"}
  /\ run \in 0..MaxRuns
  /\ Len(newTrades) <= Len(trades)

\* ------------------------------------------------------------------ claims
HasPerson(trade) == ~(trade.senator \in {Undefined, ""}) \/ ~(trade.representative \in {Undefined, ""})
HasTicker(trade) == ~(trade.ticker \in {Undefined, ""})
HasDate(trade) == ~(trade.transaction_date \in {Undefined, ""}) \/ ~(trade.disclosure_date \in {Undefined, ""})
MarkedTrades == [k \in 1..Len(markLog) |-> markLog[k].trade]
PassedAsNew == SelectSeq(isNewLog, LAMBDA e : e.result)
Filtered == pc \in {"persist", "exited"} /\ trades # <<>>

\* C1: when the previous run read a healthy table, sent its digest and had
\* every write accepted, a run that fetches the same batch of records having a
\* person, a ticker and a date, and reads a healthy table, finds nothing new
\* and sends no e-mail.
C1_DedupAcrossRuns ==
  (/\ pc = "exited"
   /\ prev.ran /\ prev.clean
   /\ trades = prev.trades
   /\ \A k \in 1..Len(trades) :
        HasPerson(trades[k]) /\ HasTicker(trades[k]) /\ HasDate(trades[k])
   /\ ReadsHealthy)
  => (newTrades = <<>> /\ emails = <<>>)

\* C2: the id of every row markAsSeen posts is the tradeId that was passed to
\* isNewTrade for the same record.
C2_SameIdentityOnBothPaths ==
  \A k \in 1..Len(markLog) :
    markLog[k].resp \in {"accepted", "rejected", "netError"}
      => markLog[k].id = PassedAsNew[k].tradeId

C4_NewSetIsUnseenEligible ==
  pc \in {"filter", "persist", "exited"} =>
    LET done == SubSeq(trades, 1, i - 1)
        idx == SelectSeq([k \in 1..Len(done) |-> k],
                         LAMBDA k : HasPerson(trades[k]) /\ HasTicker(trades[k]))
    IN /\ [k \in 1..Len(isNewLog) |-> isNewLog[k].index] = idx
       /\ newTrades =
            [k \in 1..Len(SelectSeq(isNewLog, LAMBDA e : e.answer # "present")) |->
               trades[SelectSeq(isNewLog, LAMBDA e : e.answer # "present")[k].index]]

\* C5: an existence check that fails in any way resolves to "new".
C5_FailedCheckMeansNew ==
  \A k \in 1..Len(isNewLog) :
    isNewLog[k].answer \in {"failed", "none"} => isNewLog[k].result

\* C6: a run calls sendEmailAlert at most once; once filtering is over it has
\* called it exactly once, with the whole new set, if the new set is not
\* empty, and not at all if it is.
C6_NotifierOncePerRun ==
  /\ Len(emails) <= 1
  /\ emails # <<>> => (emails[1].batch = newTrades /\ newTrades # <<>>)
  /\ (pc \in {"persist", "exited"} /\ newTrades # <<>>) => Len(emails) = 1

C6_Witness ==
  /\ pc = "exited"
  /\ Len(newTrades) = 2
  /\ Len(emails) = 1 /\ emails[1].resp = "netError"

\* C7: a run that fetched records and found none new sends no e-mail, calls
\* markAsSeen for none, leaves the table as it was and exits with status 0.
C7_AllSeenEndsQuietly ==
  (pc = "exited" /\ trades # <<>> /\ newTrades = <<>>) =>
    /\ emails = <<>>
    /\ markLog = <<>>
    /\ store = storeAtStart
    /\ outcome = "completed"
    /\ exitCode = 0

C7_Witness ==
  /\ pc = "exited"
  /\ newTrades = <<>>
  /\ Len(isNewLog) = 2
  /\ \A k \in 1..Len(isNewLog) : isNewLog[k].answer = "present"

\* C8: with SUPABASE_URL or SUPABASE_KEY absent no call reaches the table:
\* every isNewTrade returns true, so the new set is every record with a person
\* and a ticker, the digest carries all of them, and markAsSeen writes nothing.
C8_UnconfiguredStoreNotifiesAll ==
  (CONFIG.SUPABASE_URL = Undefined \/ CONFIG.SUPABASE_KEY = Undefined) =>
    /\ store = {}
    /\ \A k \in 1..Len(isNewLog) : isNewLog[k].answer = "none" /\ isNewLog[k].result
    /\ \A k \in 1..Len(markLog) : markLog[k].resp = "notCalled"
    /\ Filtered =>
         /\ newTrades = SelectSeq(trades, LAMBDA t : HasPerson(t) /\ HasTicker(t))
         /\ newTrades # <<>> => (Len(emails) = 1 /\ emails[1].batch = newTrades)

C8_Witness ==
  /\ CONFIG.SUPABASE_KEY = Undefined /\ CONFIG.SUPABASE_URL = ValidUrl
  /\ run = 2
  /\ pc = "exited" /\ outcome = "completed"
  /\ Len(newTrades) = 2
  /\ Len(markLog) = 2

\* C9: a record without a person or without a ticker is never given an
\* identity, never asked about, never in the digest and never persisted.
C9_IneligibleNeverProcessed ==
  \A k \in 1..Len(trades) :
    ~(HasPerson(trades[k]) /\ HasTicker(trades[k])) =>
      /\ \A m \in 1..Len(isNewLog) : isNewLog[m].index # k
      /\ \A m \in 1..Len(newTrades) : newTrades[m] # trades[k]
      /\ \A e \in 1..Len(emails) :
           \A m \in 1..Len(emails[e].batch) : emails[e].batch[m] # trades[k]
      /\ \A m \in 1..Len(markLog) : markLog[m].trade # trades[k]

C9_Witness ==
  /\ pc = "exited" /\ outcome = "completed"
  /\ Len(trades) = 2
  /\ HasPerson(trades[1]) /\ ~HasTicker(trades[1])
  /\ Len(emails) = 1
  /\ Len(markLog) = 1

\* C10: a record with neither transaction_date nor disclosure_date is never
\* given an identity, never asked about, never in the digest and never
\* persisted.
C10_DatelessDropped ==
  \A k \in 1..Len(trades) :
    ~HasDate(trades[k]) =>
      /\ \A m \in 1..Len(isNewLog) : isNewLog[m].index # k
      /\ \A m \in 1..Len(newTrades) : newTrades[m] # trades[k]
      /\ \A m \in 1..Len(markLog) : markLog[m].trade # trades[k]

\* C11: a run whose payload does not parse, or parses to something that is
\* not an array, sends no e-mail, makes no call to the table, leaves it as it
\* was and exits with status 0.
C11_NothingParseableEndsQuietly ==
  (pc = "exited" /\ trades = <<>> /\ resp \in {"badJson", "notArray"}) =>
    /\ emails = <<>>
    /\ isNewLog = <<>>
    /\ markLog = <<>>
    /\ store = storeAtStart
    /\ exitCode = 0

C11_Witness ==
  /\ pc = "exited" /\ trades = <<>> /\ resp = "badJson"
  /\ run = 2 /\ storeAtStart # {}

\* C12: a run that completes exits with status 0 and a run whose error is
\* rethrown out of checkForNewTrades exits with a non-zero status.
C12_ExitStatusTellsOutcome ==
  pc = "exited" =>
    /\ outcome = "completed" => exitCode = 0
    /\ outcome = "rethrown" => exitCode # 0

\* C13: whatever the table answers to the writes, markAsSeen is called once
\* for every record of the new set, in order, no call fails the run and the
\* run completes.
C13_PersistIsBestEffort ==
  /\ pc = "persist" =>
       /\ Len(markLog) = j - 1
       /\ MarkedTrades = SubSeq(newTrades, 1, j - 1)
       /\ outcome = "none"
  /\ (pc = "exited" /\ markLog # <<>>) =>
       /\ MarkedTrades = newTrades
       /\ outcome = "completed"

C13_Witness ==
  /\ pc = "exited" /\ outcome = "completed"
  /\ Len(newTrades) = 2 /\ Len(markLog) = 2
  /\ markLog[1].resp = "netError" /\ markLog[2].resp = "rejected"

\* C14: with RESEND_API_KEY or YOUR_EMAIL absent sendEmailAlert sends nothing
\* and does not fail the run; and whatever options are absent, a run is only
\* ever aborted by a failed request, never by the configuration.
C14_UnconfiguredChannelIsNoOp ==
  /\ (CONFIG.RESEND_API_KEY = Undefined \/ CONFIG.YOUR_EMAIL = Undefined) =>
       /\ \A k \in 1..Len(emails) : emails[k].resp = "notCalled"
       /\ emails # <<>> => (pc \in {"persist", "exited"} /\ outcome # "rethrown")
  /\ outcome = "rethrown" =>
       /\ resp \in {"non200", "badJson", "netError"}
       /\ trades = <<>> \/ emails # <<>>

C14_Witness ==
  /\ CONFIG = [YOUR_EMAIL |-> Undefined, RESEND_API_KEY |-> Undefined,
               SUPABASE_URL |-> Undefined, SUPABASE_KEY |-> Undefined]
  /\ pc = "exited" /\ outcome = "completed"
  /\ Len(emails) = 1 /\ Len(emails[1].batch) = 2
  /\ Len(markLog) = 2

\* C15: the digest of a batch of n records gives n as the number of trades,
\* lists the first min(n, 10) records in batch order, and has an "and N more"
\* line, with N = n - 10, exactly when n > 10.
C15_DigestCountsAndTruncates ==
  digest.sent =>
    LET n == Len(batch) IN
    /\ digest.count = n
    /\ Len(digest.lines) = IF n < 10 THEN n ELSE 10
    /\ \A k \in 1..Len(digest.lines) :
         /\ digest.lines[k].ticker = batch[k].ticker
         /\ digest.lines[k].type = batch[k].type
    /\ (digest.more # <<>>) <=> (n > 10)
    /\ n > 10 => digest.more = <<n - 10>>

C15_Witness ==
  /\ digest.sent
  /\ Len(batch) = 12
  /\ Len(digest.lines) = 10
  /\ digest.more = <<2>>

\* the (date, person, ticker) of a record that has all three
Triple(t) ==
  <<IF t.transaction_date # Undefined THEN t.transaction_date ELSE t.disclosure_date,
    IF t.senator # Undefined THEN t.senator ELSE t.representative,
    t.ticker>>

\* C16: two records with the same date, the same person and the same ticker
\* get the same tradeId, whatever their type and amount and whichever field
\* the person and the date came from.
C16_IdentityIsFunctionOfTriple ==
  (ids # <<>> /\ Triple(pair[1]) = Triple(pair[2])) => ids[1] = ids[2]

C16_Witness ==
  /\ ids # <<>>
  /\ Triple(pair[1]) = Triple(pair[2])
  /\ pair[1].senator = Undefined /\ pair[2].senator # Undefined
  /\ pair[1].transaction_date = Undefined /\ pair[2].transaction_date # Undefined
  /\ pair[1].type # pair[2].type
  /\ pair[1].amount # pair[2].amount

\* C17: markAsSeen is called for a record only after sendEmailAlert has
\* returned without failure for a batch that holds the record.
C17_WriteOnlyAfterNotify ==
  \A k \in 1..Len(markLog) :
    /\ Len(emails) = 1
    /\ emails[1].resp \in {"200", "notCalled"}
    /\ \E m \in 1..Len(emails[1].batch) : emails[1].batch[m] = markLog[k].trade

C17_Witness ==
  /\ pc = "persist"
  /\ Len(newTrades) = 2
  /\ Len(markLog) = 1 /\ markLog[1].resp = "accepted"
  /\ emails[1].resp = "200"

\* C18: while the table answers every read and accepts every write, no
\* identity is written twice: not twice in one run, and not again in a run
\* that follows the one that wrote it.
C18_OneWritePerIdentity ==
  (/\ ReadsHealthy
   /\ prev.ran => prev.clean
   /\ \A k \in 1..Len(markLog) : markLog[k].resp = "accepted")
  => \A k \in 1..Len(markLog) :
       /\ \A m \in 1..(k - 1) : markLog[m].id # markLog[k].id
       /\ \A row \in storeAtStart : row.id # markLog[k].id

Rank(call) ==
  CASE call = "fetchRecentTrades" -> 1
    [] call = "isNewTrade" -> 2
    [] call = "sendEmailAlert" -> 3
    [] call = "markAsSeen" -> 4

\* C20: at most one request is unanswered at any time: a request is sent only
\* when the one before it was answered, and the requests of a run go out in
\* the order fetch, existence checks, notifier, persist calls.
C20_CallsAreSequential ==
  /\ inflight \in {0, 1}
  /\ \A p \in 1..Len(events) :
       IF events[p].what = "sent"
       THEN p = 1 \/ events[p - 1].what = "answered"
       ELSE p > 1 /\ events[p - 1] = [call |-> events[p].call, what |-> "sent"]
  /\ \A p, q \in 1..Len(events) :
       p < q => Rank(events[p].call) <= Rank(events[q].call)
  /\ events # <<>> => events[1].call = "fetchRecentTrades"

C20_Witness ==
  /\ pc = "exited" /\ outcome = "completed"
  /\ inflight = 0
  /\ Len(events) = 12
  /\ events[7].call = "sendEmailAlert" /\ events[12].call = "markAsSeen"

\* C21: over any sequence of runs, runs killed at any step included, a step
\* never takes a row out of the table or alters one, and the only step that
\* changes the table is a markAsSeen call that adds the row of its record.
C21_StoreIsAppendOnly ==
  [][/\ store \subseteq store'
     /\ store' # store =>
          /\ pc = "persist" /\ j <= Len(newTrades)
          /\ store' = store \cup {SeenRow(newTrades[j])}]_vars

C21_Witness ==
  /\ run = 2
  /\ prev.ran /\ ~prev.clean
  /\ outcome = "terminated" /\ pc = "exited"
  /\ Cardinality(storeAtStart) = 1
  /\ Cardinality(store) = 2
  /\ Len(markLog) = 1 /\ Len(newTrades) = 2

\* the requests of one kind the run has sent
CallsSent(call) ==
  Cardinality({p \in 1..Len(events) : events[p] = [call |-> call, what |-> "sent"]})

\* C22: a run works on the first 15 records of the provider's array, in the
\* provider's order, sends at most 1 fetch, 15 existence checks, 1 e-mail
\* request and 15 writes, and, every request being answered, ends.
C22_RunIsBoundedAndEnds ==
  /\ [](/\ trades # <<>> =>
            trades = SubSeq(feed, 1, IF Len(feed) < 15 THEN Len(feed) ELSE 15)
        /\ \A k \in 1..Len(isNewLog) :
             /\ isNewLog[k].index <= 15
             /\ isNewLog[k].tradeId = TradeId(feed[isNewLog[k].index])
             /\ k > 1 => isNewLog[k - 1].index < isNewLog[k].index
        /\ CallsSent("fetchRecentTrades") <= 1
        /\ CallsSent("isNewTrade") <= 15
        /\ CallsSent("sendEmailAlert") <= 1
        /\ CallsSent("markAsSeen") <= 15)
  /\ (pc = "fetch") ~> (pc = "exited")

C22_Witness ==
  /\ pc = "exited" /\ outcome = "completed"
  /\ Len(feed) = 17
  /\ Len(trades) = 15
  /\ CallsSent("fetchRecentTrades") = 1
  /\ CallsSent("isNewTrade") = 15
  /\ CallsSent("sendEmailAlert") = 1
  /\ CallsSent("markAsSeen") = 15

\* C23: two records that have a person, a ticker and a date and differ in
\* date, person or ticker never get the same tradeId, values that contain a
\* '-' included.
C23_IdentityIsInjective ==
  (ids # <<>> /\ Triple(pair[1]) # Triple(pair[2])) => ids[1] # ids[2]
====
